---- MODULE Spec2Model ----
(***************************************************************************)
(* Compile-time bit patterns and the recursive bit dilution of             *)
(* BitsCompileTime.hpp.                                                    *)
(*                                                                         *)
(* An unsigned value of w bits is modelled as the set of the positions of  *)
(* its set bits, a subset of 0..w-1: | is \cup, & is \cap, ^ is the        *)
(* symmetric difference and a left shift moves every position up and       *)
(* drops what leaves the operand's width.                                  *)
(*                                                                         *)
(* The templates are evaluated instantiation by instantiation: Step<T,N>   *)
(* from Step<T,N-1>, RectangularWave<T,L,M,N> from RectangularWave<T,L,M,  *)
(* N-1>.  An instantiation of diluteBitsRecursive<T,nSpacing> first        *)
(* derives its constants (the masks of its levels), and is then called.    *)
(*                                                                         *)
(* Besides: the compile-time logarithms FloorLog and CeilLog, the          *)
(* functions ceilDiv and isPowerOfTwo of BitsCompileTime.hpp and           *)
(* Fundamental.hpp, and the index conversions of vectorIndex.hpp.  Numbers *)
(* of 32 and 64 bits are tuples of digits to the base 2^16, so that sums   *)
(* wrap where the program's do.                                            *)
(***************************************************************************)
EXTENDS Integers, FiniteSets, Sequences, TLC

VARIABLES
    nBitsAvailable,  \* sizeof(T) * CHAR_BIT of the dilution's type T
    nSpacing,        \* template parameter nSpacing of diluteBitsRecursive
    nStepsNeeded,    \* 1 + CeilLog<2,nBitsAllowed>, 0 while not yet derived
    masks,           \* masks[i+1]: the mask constant of DiluteBitsCrumble level i
    rx,              \* the argument of diluteBitsRecursive
    x,               \* the value handed from one DiluteBitsCrumble level to the next
    iStep,           \* the DiluteBitsCrumble level that ran last
    pc,              \* position of the dilution
    wT, wL, wM, wN,  \* RectangularWave<T,L,M,N>: width of T and L, M, N
    wNDefault,       \* TRUE when the template argument N is left to its default
    wn,              \* number of rectangles of the instantiation evaluated last
    wvalue,          \* its value (a Longest)
    wpc,             \* position of the pattern's evaluation
    sT, sN,          \* Step<T,N>: width of T and N of the instantiation evaluated last
    svalue,          \* its value
    sshift,          \* the shift distance its evaluation used (0: none)
    lkind,           \* "FloorLog" or "CeilLog"
    lB, lX,          \* the template arguments B and X of the logarithm named
    larg,            \* the argument X of the instantiation reached last
    ln,              \* number of instantiations of the primary template open
    lvalue,          \* the member value of the instantiation completed last
    lpc,             \* position of the logarithm's evaluation
    fname,           \* the function called: "ceilDiv" or "isPowerOfTwo"
    fsrc,            \* the header whose definition is called
    fT,              \* width of the operand type T
    fa, fb,          \* the arguments (a, b) or (x)
    fresult,         \* the value returned
    fpc,             \* position of the call
    iT,              \* width of T_UintLinear
    rnSize, rIndex,  \* the arguments of convertVectorToLinearIndex
    linIndex,        \* its local linIndex
    prevRange,       \* its local prevRange
    rLinIndex,       \* the argument of convertLinearToVectorIndex
    vecIndex,        \* its local vecIndex
    vi,              \* the loop variable i of either, counted from 1
    ipc              \* position of the conversion

vars == << nBitsAvailable, nSpacing, nStepsNeeded, masks, rx, x, iStep, pc,
           wT, wL, wM, wN, wNDefault, wn, wvalue, wpc, sT, sN, svalue, sshift,
           lkind, lB, lX, larg, ln, lvalue, lpc,
           fname, fsrc, fT, fa, fb, fresult, fpc,
           iT, rnSize, rIndex, linIndex, prevRange, rLinIndex, vecIndex, vi, ipc >>

dvars == << nBitsAvailable, nSpacing, nStepsNeeded, masks, rx, x, iStep, pc >>
wvars == << wT, wL, wM, wN, wNDefault, wn, wvalue, wpc >>
svars == << sT, sN, svalue, sshift >>
lvars == << lkind, lB, lX, larg, ln, lvalue, lpc >>

(* the state of the pattern templates and of the dilution, and the rest *)
bvars == << dvars, wvars, svars >>
fvars == << fname, fsrc, fT, fa, fb, fresult, fpc >>
ivars == << iT, rnSize, rIndex, linIndex, prevRange, rLinIndex, vecIndex, vi, ipc >>
nvars == << lvars, fvars, ivars >>

----------------------------------------------------------------------------
(* Bounds of the model *)

MaxSpacing == 8     \* spacings 0..MaxSpacing are tried with every width
MaxOnes    == 1     \* inputs with at most MaxOnes set (or cleared) bits
MaxDense   == 8     \* every input below 2^MaxDense
MaxL       == 5     \* wave parameters L, M in 0..MaxL ...
MaxN       == 4     \* ... and N in 0..MaxN, besides the special values
MaxBase    == 5     \* bases 0..MaxBase of the logarithms
MaxLogArg  == 33    \* arguments 0..MaxLogArg of the logarithms and divisions
MaxNear    == 3     \* arguments 2^32 - k and 2^64 - k for k in 1..MaxNear
MaxSize    == 3     \* dimensions of the sizes 1..MaxSize, besides the tests' sizes

----------------------------------------------------------------------------
(* Types *)

LongestBits == 64       \* sizeof( Longest ) * CHAR_BIT
NBitsMax    == 255      \* std::numeric_limits< NBits >::max()
IntBits     == 32       \* width of int, the type narrower operands promote to

Widths == { 8, 16, 32, 64 }   \* unsigned char, short, int, long

WideWidths == { 128 }         \* unsigned __int128, wider than Longest

Bits(w) == 0 .. (w - 1)

(* The type the operand of << has after the integral promotions. *)
PromotedBits(w) == IF w < IntBits THEN IntBits ELSE w

(* v << n evaluated in a type of w bits, for n < w *)
Shl(v, n, w) == { i + n : i \in v } \cap Bits(w)

(* conversion to an unsigned type of w bits *)
Trunc(v, w) == v \cap Bits(w)

Xor(a, b) == (a \ b) \cup (b \ a)

RECURSIVE Pow2(_)
Pow2(e) == IF e = 0 THEN 1 ELSE 2 * Pow2(e - 1)

(* the value of a 16-bit literal *)
BitsOf(n) == { i \in 0 .. 15 : (n \div Pow2(i)) % 2 = 1 }

(* the value of the 32-bit literal 0xhhhhllll *)
Word(hi, lo) == BitsOf(lo) \cup { i + 16 : i \in BitsOf(hi) }

----------------------------------------------------------------------------
(* Unsigned arithmetic of 32 and 64 bits.  A number is the tuple of its four
   digits to the base 2^16, the lowest first; a small number is an integer
   below 2^15. *)

LimbBase == 65536
SmallLimit == 32768

Ull(n) == << n % LimbBase, n \div LimbBase, 0, 0 >>

(* 2^64 - k for 1 <= k <= 65536 *)
UllNear(k) == << LimbBase - k, LimbBase - 1, LimbBase - 1, LimbBase - 1 >>

(* 2^32 - k for 1 <= k <= 65536 *)
UintNear(k) == << LimbBase - k, LimbBase - 1, 0, 0 >>

UllMax == UllNear(1)

(* conversion to an unsigned type of 8, 16, 32 or 64 bits *)
Wrap(a, bits) ==
    IF bits = 8 THEN << a[1] % 256, 0, 0, 0 >>
    ELSE IF bits = 16 THEN << a[1], 0, 0, 0 >>
    ELSE IF bits = 32 THEN << a[1], a[2], 0, 0 >>
    ELSE a

(* a + b modulo 2^64 *)
UllAdd(a, b) ==
    LET s1 == a[1] + b[1]
        s2 == a[2] + b[2] + s1 \div LimbBase
        s3 == a[3] + b[3] + s2 \div LimbBase
        s4 == a[4] + b[4] + s3 \div LimbBase
    IN  << s1 % LimbBase, s2 % LimbBase, s3 % LimbBase, s4 % LimbBase >>

(* a + b and a - 1 in a type of 32 or 64 bits *)
Add(a, b, bits) == Wrap(UllAdd(a, b), bits)
Sub1(a, bits) == Wrap(UllAdd(a, UllMax), bits)

(* a / b for a small divisor b > 0 *)
Div(a, b) ==
    LET c4 == a[4]
        c3 == (c4 % b) * LimbBase + a[3]
        c2 == (c3 % b) * LimbBase + a[2]
        c1 == (c2 % b) * LimbBase + a[1]
    IN  << c1 \div b, c2 \div b, c3 \div b, c4 \div b >>

(* a % b for a small divisor b > 0 *)
Mod(a, b) ==
    LET c4 == a[4]
        c3 == (c4 % b) * LimbBase + a[3]
        c2 == (c3 % b) * LimbBase + a[2]
        c1 == (c2 % b) * LimbBase + a[1]
    IN  c1 % b

(* a < b *)
Less(a, b) ==
    \E i \in 1 .. 4 : a[i] < b[i] /\ \A j \in (i + 1) .. 4 : a[j] = b[j]

(* numbers of five digits, for products that exceed 2^64 *)
Wide(a) == << a[1], a[2], a[3], a[4], 0 >>

(* a * m for a small m *)
WideMul(a, m) ==
    LET p1 == a[1] * m
        p2 == a[2] * m + p1 \div LimbBase
        p3 == a[3] * m + p2 \div LimbBase
        p4 == a[4] * m + p3 \div LimbBase
        p5 == a[5] * m + p4 \div LimbBase
    IN  << p1 % LimbBase, p2 % LimbBase, p3 % LimbBase, p4 % LimbBase,
           p5 % LimbBase >>

WideLeq(a, b) ==
    a = b \/ \E i \in 1 .. 5 : a[i] < b[i] /\ \A j \in (i + 1) .. 5 : a[j] = b[j]

IsSmall(b) == b[1] < SmallLimit /\ b[2] = 0 /\ b[3] = 0 /\ b[4] = 0

(* a / b for a divisor b > 0 that is small or larger than a quarter of a *)
DivBy(a, b) ==
    IF IsSmall(b) THEN Div(a, b[1])
    ELSE Ull(CHOOSE q \in 0 .. 3 :
                 /\ WideLeq(WideMul(Wide(b), q), Wide(a))
                 /\ ~ WideLeq(WideMul(Wide(b), q + 1), Wide(a)))

----------------------------------------------------------------------------
(* namespace CompileTimeFunctions *)

(* ( a + b - T(1) ) / b for a and b of an unsigned type T of the given
   width and b > 0: evaluated in T, or in int where T is narrower, and
   returned as a T *)
ceilDivUnsigned(a, b, bits) ==
    LET arith == PromotedBits(bits)
    IN  Wrap(DivBy(Sub1(Add(a, b, arith), arith), b), bits)

(* the same for operands small enough that a + b does not wrap *)
ceilDiv(a, b) == (a + b - 1) \div b

(* X/B, the argument FloorLog<B,X> passes on *)
FloorLogNext(X, B) == Div(X, B)

(* ceilDiv(X,B), the argument CeilLog<B,X> passes on *)
CeilLogNext(X, B) == ceilDivUnsigned(X, Ull(B), LongestBits)

(* v - T(1) for a value v given by its bits, in a type of the given width *)
Decrement(v, bits) ==
    IF v = {} THEN Bits(bits)
    ELSE LET low == CHOOSE i \in v : \A j \in v : i <= j
         IN  (v \ {low}) \cup Bits(low)

isPowerOfTwoNoZeroTest(v, T) == (v \cap Decrement(v, PromotedBits(T))) = {}
(* ! ( x == T(0) ) && ! ( x & ( x - T(1) ) ) for x of an unsigned type T *)
isPowerOfTwo(v, T) ==
    v # {} /\ (v \cap Decrement(v, PromotedBits(T))) = {}

(* the specialisations <B,0> and <B,1> *)
LogSpecialised(X) == X = Ull(0) \/ X = Ull(1)

(* static_assert( B != 0, "" ) of the primary templates *)
LogAssert(B) == B # 0

RECURSIVE CeilLog(_, _)
CeilLog(B, X) ==
    IF X = 0 \/ X = 1 THEN 0 ELSE 1 + CeilLog(B, ceilDiv(X, B))

----------------------------------------------------------------------------
(* namespace BitPatterns *)

StepShiftDistance == 1      \* the shift of Step<T,N>

StepShiftNoCast(T, v) == Shl(v, StepShiftDistance, PromotedBits(T))
(* T( Step<T,N-1>::value << 1 ) *)
StepShift(T, v) == Trunc(Shl(v, StepShiftDistance, PromotedBits(T)), T)

(* Step<T,0>::value and Step<T,1>::value *)
Step0 == {}
Step1 == {0}

(* the primary template: T( Step<T,N-1>::value << 1 ) | T(1) *)
StepPrimary(T, v) == StepShift(T, v) \cup {0}

DefaultNAlwaysDivides(L, M) == TRUE
(* L+M == 0 ? 0 : ceilDiv( ... , L+M ): whether the operand that divides by
   L+M is evaluated *)
DefaultNDivides(L, M) == L + M # 0

DefaultNFloor(T, L, M) == IF L + M = 0 THEN 0 ELSE T \div (L + M)
(* the default of the template parameter N *)
DefaultN(T, L, M) == IF L + M = 0 THEN 0 ELSE ceilDiv(T, L + M)

(* The shift of a Longest by L+M is a constant expression only below the
   width of Longest; otherwise the initialiser is ill-formed. *)
WaveShiftDefined(L, M) == L + M < LongestBits

(* RectangularWave<T,L,M,N-1>::value << (L+M) *)
WaveShift(v, L, M) == Shl(v, L + M, LongestBits)

(* RectangularWave<T,L,M,1>::value: Step<T,L>::value as a Longest *)
WaveOneValue(step) == Trunc(step, LongestBits)

(* the primary template, from the values of <T,L,M,N-1> and <T,L,M,1> *)
WavePrimary(prev, one, L, M) == WaveShift(prev, L, M) \cup one

----------------------------------------------------------------------------
(* namespace BitFunctions *)

BaseBitsAllowedFloor(T, S) == T \div (S + 1)
(* nBitsAllowed of DiluteBitsCrumble<T,nSpacing,nStepsNeeded,0> *)
BaseBitsAllowed(T, S) == 1 + (T - 1) \div (S + 1)

BaseNoMask(v, ones) == v
(* DiluteBitsCrumble<T,nSpacing,nStepsNeeded,0>::apply, with
   ones = BitPatterns::Ones< T, nBitsAllowed >::value *)
CrumbleBase(v, ones) == v \cap ones

BitsAllowedFloor(T, S) == T \div (S + 1)
(* nBitsAllowed and nStepsNeeded of diluteBitsRecursive *)
BitsAllowed(T, S) == ceilDiv(T, S + 1)

StepsNeededNoBase(T, S) == CeilLog(2, BitsAllowed(T, S))
StepsNeededExtra(T, S) == 2 + CeilLog(2, BitsAllowed(T, S))
StepsNeeded(T, S) == 1 + CeilLog(2, BitsAllowed(T, S))

Step2PowAscending(nSteps, i) == Pow2(i - 1)
(* iStep2Pow of DiluteBitsCrumble<T,nSpacing,nStepsNeeded,iStep> *)
Step2Pow(nSteps, i) == Pow2((nSteps - 1) - i)

ShiftDistanceSpec(p, S) == p * (S + 1)
ShiftDistanceBlock(p, S) == p
(* the shift distance iStep2Pow * nSpacing *)
ShiftDistance(p, S) == p * S

MaskSpacingPeriodic(p, S) == p
MaskSpacingNone(p, S) == 0
(* the mask is RectangularWave< T, iStep2Pow, iStep2Pow * nSpacing >: its M *)
MaskSpacing(p, S) == p * S

CrumbleRoundNoMask(T, S, p, v, mask) ==
    Trunc(v \cup Shl(v, ShiftDistance(p, S), PromotedBits(T)), T)
CrumbleRoundNoOr(T, S, p, v, mask) ==
    Trunc(Shl(v, ShiftDistance(p, S), PromotedBits(T)) \cap mask, T)
(* x = ( x | ( x << ( iStep2Pow * nSpacing ) ) ) & mask, assigned to a T *)
CrumbleRound(T, S, p, v, mask) ==
    Trunc((v \cup Shl(v, ShiftDistance(p, S), PromotedBits(T))) \cap mask, T)

(* diluteBitsRecursive as a function of its argument, given the mask
   constants m of its levels: the levels 0 .. i in order *)
RECURSIVE CrumbleUpTo(_, _, _, _, _)
CrumbleUpTo(T, S, m, i, v) ==
    IF i = 0 THEN CrumbleBase(v, m[1])
    ELSE CrumbleRound(T, S, Step2Pow(Len(m), i),
                      CrumbleUpTo(T, S, m, i - 1, v), m[i + 1])

diluteBitsRecursive(T, S, m, v) == CrumbleUpTo(T, S, m, Len(m) - 1, v)

----------------------------------------------------------------------------
(* The classical routines the test compares with (32 bit) *)

part1by1(n) ==
    LET n0 == n \cap Word(\h0000, \hFFFF)
        n1 == (n0 \cup Shl(n0, 8, 32)) \cap Word(\h00FF, \h00FF)
        n2 == (n1 \cup Shl(n1, 4, 32)) \cap Word(\h0F0F, \h0F0F)
        n3 == (n2 \cup Shl(n2, 2, 32)) \cap Word(\h3333, \h3333)
    IN  (n3 \cup Shl(n3, 1, 32)) \cap Word(\h5555, \h5555)

part1by2(n) ==
    LET n0 == n \cap Word(\h0000, \h03FF)
        n1 == Xor(n0, Shl(n0, 16, 32)) \cap Word(\hFF00, \h00FF)
        n2 == Xor(n1, Shl(n1, 8, 32)) \cap Word(\h0300, \hF00F)
        n3 == Xor(n2, Shl(n2, 4, 32)) \cap Word(\h030C, \h30C3)
    IN  Xor(n3, Shl(n3, 2, 32)) \cap Word(\h0924, \h9249)

----------------------------------------------------------------------------
(* Inputs *)

RECURSIVE SparseSets(_, _)
SparseSets(w, k) ==
    IF k = 0 THEN { {} }
    ELSE LET prev == SparseSets(w, k - 1)
         IN  prev \cup { s \cup {i} : s \in prev, i \in Bits(w) }

Min(a, b) == IF a < b THEN a ELSE b

(* T( 2835127451ull ) of testDilution *)
TestValue(w) == Trunc(Word(\hA8FC, \h9C9B), w)

Inputs(w) ==
    LET sparse == SparseSets(w, MaxOnes)
    IN  sparse \cup { Bits(w) \ s : s \in sparse }
               \cup SUBSET Bits(Min(w, MaxDense))
               \cup { TestValue(w) }

(* the ranges testDilution2 prints its argument in: x & 0xFFFFul for
   spacing 1 and x & 0x03FFul for spacing 2 *)
MagicBits1 == 16
MagicBits2 == 10

MagicBits(S) == IF S = 1 THEN MagicBits1 ELSE MagicBits2

(* every value of the printed range, and values outside it *)
MagicInputs(S) ==
    LET sparse == SparseSets(32, MaxOnes)
    IN  sparse \cup { Bits(32) \ s : s \in sparse }
               \cup SUBSET Bits(MagicBits(S))
               \cup { TestValue(32) }

Spacings(w) == (0 .. MaxSpacing) \cup { w - 2, w - 1, w, NBitsMax }

----------------------------------------------------------------------------
(* Step<T,N> for N = 0, 1, 2, ..., each from the one before it *)

WaveIdle ==
    /\ wL = 0 /\ wM = 0 /\ wN = 0 /\ wNDefault = FALSE
    /\ wn = 0 /\ wvalue = {} /\ wpc = "idle"

DiluteIdle ==
    /\ nBitsAvailable = 8 /\ nSpacing = 0 /\ nStepsNeeded = 0 /\ masks = << >>
    /\ rx = {} /\ x = {} /\ iStep = 0 /\ pc = "idle"

StepIdle ==
    /\ sT = 8 /\ sN = 0 /\ svalue = {} /\ sshift = 0

LogIdle ==
    /\ lkind = "FloorLog" /\ lB = 0 /\ lX = << 0, 0, 0, 0 >> /\ larg = lX
    /\ ln = 0 /\ lvalue = 0 /\ lpc = "idle"

FunctionIdle ==
    /\ fname = "ceilDiv" /\ fsrc = "BitsCompileTime.hpp" /\ fT = 8
    /\ fa = << 0, 0, 0, 0 >> /\ fb = << 0, 0, 0, 0 >>
    /\ fresult = << 0, 0, 0, 0 >> /\ fpc = "idle"

IndexIdle ==
    /\ iT = 64 /\ rnSize = << >> /\ rIndex = << >>
    /\ linIndex = 0 /\ prevRange = 0 /\ rLinIndex = 0 /\ vecIndex = << >>
    /\ vi = 0 /\ ipc = "idle"

NumbersIdle == LogIdle /\ FunctionIdle /\ IndexIdle

InitStep ==
    /\ sT \in Widths
    /\ sN = 0
    /\ svalue = Step0
    /\ sshift = 0
    /\ wT = sT /\ WaveIdle
    /\ DiluteIdle
    /\ NumbersIdle

StepInstantiate(upTo) ==
    /\ sN < upTo
    /\ sN' = sN + 1
    /\ svalue' = IF sN + 1 = 1 THEN Step1 ELSE StepPrimary(sT, svalue)
    /\ sshift' = IF sN + 1 >= 2 THEN StepShiftDistance ELSE 0
    /\ UNCHANGED << sT, dvars, wvars, nvars >>

NextStep == StepInstantiate(NBitsMax)

SpecStep == InitStep /\ [][NextStep]_vars

----------------------------------------------------------------------------
(* RectangularWave<T,L,M,N>: Step<T,L> first, then the specialisations for
   N = 0 and N = 1 and the primary template up to N *)

WaveLengths(w) ==
    (0 .. MaxL) \cup { w - 1, w, w + 1, LongestBits, LongestBits + 1, NBitsMax }

InitWaveOf(widths) ==
    /\ wT \in widths
    /\ wL \in WaveLengths(wT)
    /\ wM \in WaveLengths(wT)
    /\ \/ wNDefault = FALSE /\ wN \in 0 .. MaxN /\ wpc = "instantiate"
       \/ wNDefault = TRUE /\ wN = 0 /\ wpc = "default"
    /\ wn = 0
    /\ wvalue = {}
    /\ sT = wT /\ sN = 0 /\ svalue = Step0 /\ sshift = 0
    /\ DiluteIdle
    /\ NumbersIdle

InitWave == InitWaveOf(Widths)

(* RectangularWave<T,L,M> is named without N: the default argument is
   evaluated; a division by zero in it is not a constant expression *)
WaveDefault ==
    /\ wpc = "default"
    /\ IF DefaultNDivides(wL, wM) /\ wL + wM = 0
       THEN /\ wpc' = "rejected"
            /\ UNCHANGED wN
       ELSE /\ wN' = DefaultN(wT, wL, wM)
            /\ wpc' = "instantiate"
    /\ UNCHANGED << wT, wL, wM, wNDefault, wn, wvalue, dvars, svars, nvars >>

(* Step<T,L>, which RectangularWave<T,L,M,1> names *)
WaveStep ==
    /\ wpc = "instantiate"
    /\ wN >= 1
    /\ StepInstantiate(wL)

(* RectangularWave<T,L,M,0> *)
WaveNone ==
    /\ wpc = "instantiate"
    /\ wN = 0
    /\ wvalue' = {}
    /\ wpc' = "done"
    /\ UNCHANGED << wT, wL, wM, wN, wNDefault, wn, dvars, svars, nvars >>

(* RectangularWave<T,L,M,1> *)
WaveOne ==
    /\ wpc = "instantiate"
    /\ wN >= 1
    /\ sN = wL
    /\ wn' = 1
    /\ wvalue' = WaveOneValue(svalue)
    /\ wpc' = IF wN = 1 THEN "done" ELSE "recurse"
    /\ UNCHANGED << wT, wL, wM, wN, wNDefault, dvars, svars, nvars >>

(* the primary template, for wn+1 rectangles *)
WaveMore ==
    /\ wpc = "recurse"
    /\ IF WaveShiftDefined(wL, wM)
       THEN /\ wn' = wn + 1
            /\ wvalue' = WavePrimary(wvalue, WaveOneValue(svalue), wL, wM)
            /\ wpc' = IF wn + 1 = wN THEN "done" ELSE "recurse"
       ELSE /\ wpc' = "rejected"
            /\ UNCHANGED << wn, wvalue >>
    /\ UNCHANGED << wT, wL, wM, wN, wNDefault, dvars, svars, nvars >>

NextWave ==
    \/ WaveDefault
    \/ WaveStep
    \/ WaveNone
    \/ WaveOne
    \/ WaveMore

SpecWave == InitWave /\ [][NextWave]_vars

----------------------------------------------------------------------------
(* FloorLog<B,X> and CeilLog<B,X>: the instantiations named down to a
   specialisation, then their values from the innermost outwards *)

BitsIdle == wT = 8 /\ WaveIdle /\ DiluteIdle /\ StepIdle

(* the arguments testLog prints, and arguments near 2^32 and 2^64 *)
LogArgs ==
    { Ull(n) : n \in 0 .. MaxLogArg }
        \cup { UllNear(k) : k \in 1 .. MaxNear }
        \cup { UintNear(k) : k \in 1 .. MaxNear }
        \cup { << 0, 0, 1, 0 >>, << 0, 0, 0, SmallLimit >> }

InitLog ==
    /\ lkind \in { "FloorLog", "CeilLog" }
    /\ lB \in 0 .. MaxBase
    /\ lX \in LogArgs
    /\ larg = lX
    /\ ln = 0
    /\ lvalue = 0
    /\ lpc = "instantiate"
    /\ BitsIdle
    /\ FunctionIdle
    /\ IndexIdle

(* the primary template: it asserts B != 0 and names the instantiation its
   value is defined from; naming itself, or dividing by zero, is ill-formed *)
LogPrimary ==
    /\ lpc = "instantiate"
    /\ ~ LogSpecialised(larg)
    /\ IF LogAssert(lB) /\ lB # 0
       THEN LET next == IF lkind = "FloorLog" THEN FloorLogNext(larg, lB)
                                              ELSE CeilLogNext(larg, lB)
            IN  IF next = larg
                THEN /\ lpc' = "rejected"
                     /\ UNCHANGED << larg, ln >>
                ELSE /\ larg' = next
                     /\ ln' = ln + 1
                     /\ lpc' = "instantiate"
       ELSE /\ lpc' = "rejected"
            /\ UNCHANGED << larg, ln >>
    /\ UNCHANGED << lkind, lB, lX, lvalue, bvars, fvars, ivars >>

(* a specialisation: value = 0 *)
LogSpecialisation ==
    /\ lpc = "instantiate"
    /\ LogSpecialised(larg)
    /\ lvalue' = 0
    /\ lpc' = IF ln = 0 THEN "done" ELSE "value"
    /\ UNCHANGED << lkind, lB, lX, larg, ln, bvars, fvars, ivars >>

(* value = 1 + the value of the instantiation named *)
LogValue ==
    /\ lpc = "value"
    /\ lvalue' = 1 + lvalue
    /\ ln' = ln - 1
    /\ lpc' = IF ln = 1 THEN "done" ELSE "value"
    /\ UNCHANGED << lkind, lB, lX, larg, bvars, fvars, ivars >>

NextLog ==
    \/ LogPrimary
    \/ LogSpecialisation
    \/ LogValue

SpecLog == InitLog /\ [][NextLog]_vars

----------------------------------------------------------------------------
(* Calls of ceilDiv and isPowerOfTwo, which both headers define *)

Headers == { "BitsCompileTime.hpp", "Fundamental.hpp" }

(* 2^w - k, a value near the largest of an unsigned type of w bits *)
TypeNear(w, k) ==
    IF w = 8 THEN Ull(256 - k)
    ELSE IF w = 16 THEN Ull(LimbBase - k)
    ELSE IF w = 32 THEN UintNear(k)
    ELSE UllNear(k)

Operands(w) ==
    { Ull(n) : n \in 0 .. MaxLogArg } \cup { TypeNear(w, k) : k \in 1 .. MaxNear }

PowerOfTwoInputs(w) == Inputs(w) \cup SparseSets(w, MaxOnes + 1)

InitFunction ==
    /\ fsrc \in Headers
    /\ fT \in Widths
    /\ \/ /\ fname = "ceilDiv"
          /\ fa \in Operands(fT)
          /\ fb \in Operands(fT)
          /\ fresult = Ull(0)
       \/ /\ fname = "isPowerOfTwo"
          /\ fa \in PowerOfTwoInputs(fT)
          /\ fb = {}
          /\ fresult = FALSE
    /\ fpc = "call"
    /\ BitsIdle
    /\ LogIdle
    /\ IndexIdle

(* ceilDiv( a, b ) with a divisor b != 0 *)
CeilDivCall ==
    /\ fpc = "call"
    /\ fname = "ceilDiv"
    /\ fb # Ull(0)
    /\ fresult' = ceilDivUnsigned(fa, fb, fT)
    /\ fpc' = "done"
    /\ UNCHANGED << fname, fsrc, fT, fa, fb, bvars, lvars, ivars >>

(* ceilDiv( a, 0 ): assert( b != S(0) ) of Fundamental.hpp fails; without
   the assertion (BitsCompileTime.hpp, or NDEBUG) the division by zero is
   undefined *)
CeilDivByZero ==
    /\ fpc = "call"
    /\ fname = "ceilDiv"
    /\ fb = Ull(0)
    /\ \/ /\ fsrc = "Fundamental.hpp"
          /\ fpc' = "aborted"
          /\ UNCHANGED fresult
       \/ /\ fpc' = "undefined"
          /\ fresult' \in Operands(fT)
    /\ UNCHANGED << fname, fsrc, fT, fa, fb, bvars, lvars, ivars >>

IsPowerOfTwoCall ==
    /\ fpc = "call"
    /\ fname = "isPowerOfTwo"
    /\ fresult' = isPowerOfTwo(fa, fT)
    /\ fpc' = "done"
    /\ UNCHANGED << fname, fsrc, fT, fa, fb, bvars, lvars, ivars >>

NextFunction ==
    \/ CeilDivCall
    \/ CeilDivByZero
    \/ IsPowerOfTwoCall

SpecFunction == InitFunction /\ [][NextFunction]_vars

----------------------------------------------------------------------------
(* vectorIndex.hpp: convertVectorToLinearIndex( rIndex, rnSize ), and
   convertLinearToVectorIndex called with its result and the same rnSize;
   the assertions are compiled in *)

(* T_UintLinear: size_t, or unsigned char as a narrow instance *)
LinearWidths == { 8, 64 }

(* conversion to T_UintLinear; the numbers of the model are below 2^31 *)
ToLinear(v, w) == IF w < IntBits THEN v % Pow2(w) ELSE v

(* testVectorIndex: the sizes iMax and iMax+5 of its 1-D tests, and the
   numbers of dimensions it tries (and none) *)
iMax == 10
Sizes == (1 .. MaxSize) \cup { iMax, iMax + 5 }
Dimensions == { 0, 1, 2, 3 }

SizeVectors == UNION { [ 1 .. d -> Sizes ] : d \in Dimensions }

(* the index vectors below the first k sizes of n *)
RECURSIVE IndexVectors(_, _)
IndexVectors(n, k) ==
    IF k = 0 THEN { << >> }
    ELSE { Append(v, e) : v \in IndexVectors(n, k - 1), e \in 0 .. (n[k] - 1) }

InitIndex ==
    /\ iT \in LinearWidths
    /\ rnSize \in SizeVectors
    /\ rIndex \in IndexVectors(rnSize, Len(rnSize))
    /\ linIndex = 0 /\ prevRange = 0 /\ rLinIndex = 0
    /\ vecIndex = << >>
    /\ vi = 0
    /\ ipc = "toLinear"
    /\ BitsIdle
    /\ LogIdle
    /\ FunctionIdle

(* the sanity checks of convertVectorToLinearIndex *)
ToLinearSane(v, n) ==
    /\ Len(v) = Len(n)
    /\ \A k \in 1 .. Len(v) : v[k] < n[k]

ToLinearEnter ==
    /\ ipc = "toLinear"
    /\ IF ToLinearSane(rIndex, rnSize)
       THEN /\ linIndex' = 0
            /\ prevRange' = 1
            /\ vi' = Len(rnSize)
            /\ ipc' = "linLoop"
       ELSE /\ ipc' = "aborted"
            /\ UNCHANGED << linIndex, prevRange, vi >>
    /\ UNCHANGED << iT, rnSize, rIndex, rLinIndex, vecIndex, bvars, lvars, fvars >>

NextRangeKept(range, n, w) == range
(* prevRange *= rnSize[i] *)
NextRange(range, n, w) == ToLinear(range * n, w)

NextLinIndexNoRange(lin, v, range, w) == ToLinear(lin + v, w)
(* linIndex += rIndex[i] * prevRange *)
NextLinIndex(lin, v, range, w) == ToLinear(lin + v * range, w)

ToLinearStep ==
    /\ ipc = "linLoop"
    /\ vi >= 1
    /\ linIndex' = NextLinIndex(linIndex, rIndex[vi], prevRange, iT)
    /\ prevRange' = NextRange(prevRange, rnSize[vi], iT)
    /\ vi' = vi - 1
    /\ UNCHANGED << iT, rnSize, rIndex, rLinIndex, vecIndex, ipc, bvars, lvars, fvars >>

(* return linIndex; the result is handed to convertLinearToVectorIndex *)
ToLinearReturn ==
    /\ ipc = "linLoop"
    /\ vi = 0
    /\ rLinIndex' = linIndex
    /\ ipc' = "toVector"
    /\ UNCHANGED << iT, rnSize, rIndex, linIndex, prevRange, vecIndex, vi,
                    bvars, lvars, fvars >>

(* maxRange after the first k sizes *)
RECURSIVE maxRange(_, _, _)
maxRange(n, k, w) ==
    IF k = 0 THEN 1 ELSE ToLinear(maxRange(n, k - 1, w) * n[k], w)

(* the sanity checks of convertLinearToVectorIndex *)
ToVectorSane(lin, n, w) ==
    /\ \A k \in 1 .. Len(n) : n[k] > 0
    /\ lin < maxRange(n, Len(n), w)

ToVectorEnter ==
    /\ ipc = "toVector"
    /\ IF ToVectorSane(rLinIndex, rnSize, iT)
       THEN /\ vecIndex' = [ k \in 1 .. Len(rnSize) |-> 0 ]
            /\ vi' = Len(rnSize)
            /\ ipc' = "vecLoop"
       ELSE /\ ipc' = "aborted"
            /\ UNCHANGED << vecIndex, vi >>
    /\ UNCHANGED << iT, rnSize, rIndex, linIndex, prevRange, rLinIndex,
                    bvars, lvars, fvars >>

(* vecIndex[i] = rLinIndex % rnSize[i]; rLinIndex /= rnSize[i] *)
ToVectorStep ==
    /\ ipc = "vecLoop"
    /\ vi >= 1
    /\ vecIndex' = [ vecIndex EXCEPT ![vi] = rLinIndex % rnSize[vi] ]
    /\ rLinIndex' = rLinIndex \div rnSize[vi]
    /\ vi' = vi - 1
    /\ UNCHANGED << iT, rnSize, rIndex, linIndex, prevRange, ipc, bvars, lvars, fvars >>

(* assert( rLinIndex == 0 ); return vecIndex *)
ToVectorReturn ==
    /\ ipc = "vecLoop"
    /\ vi = 0
    /\ ipc' = IF rLinIndex = 0 THEN "done" ELSE "aborted"
    /\ UNCHANGED << iT, rnSize, rIndex, linIndex, prevRange, rLinIndex, vecIndex, vi,
                    bvars, lvars, fvars >>

NextIndex ==
    \/ ToLinearEnter
    \/ ToLinearStep
    \/ ToLinearReturn
    \/ ToVectorEnter
    \/ ToVectorStep
    \/ ToVectorReturn

SpecIndex == InitIndex /\ [][NextIndex]_vars

----------------------------------------------------------------------------
(* diluteBitsRecursive<T,nSpacing>: the instantiation, then a call *)

InitDilute(widths, spacings) ==
    /\ nBitsAvailable \in widths
    /\ nSpacing \in spacings
    /\ nStepsNeeded = 0
    /\ masks = << >>
    /\ rx = {} /\ x = {}
    /\ iStep = 0
    /\ pc = "instantiate"
    /\ wT = nBitsAvailable /\ WaveIdle
    /\ sT = nBitsAvailable /\ sN = 0 /\ svalue = Step0 /\ sshift = 0
    /\ NumbersIdle

Init ==
    \E w \in Widths : InitDilute({w}, Spacings(w))

(* testDilution2: unsigned int, spacings 1 and 2 *)
InitMagic == InitDilute({32}, {1, 2})

(* static_assert( nSpacing > 0, "" ) fails *)
StaticAssertSpacing ==
    /\ pc = "instantiate"
    /\ nSpacing = 0
    /\ pc' = "rejected"
    /\ UNCHANGED << nBitsAvailable, nSpacing, nStepsNeeded, masks, rx, x, iStep >>
    /\ UNCHANGED << wvars, svars, nvars >>

(* diluteBitsRecursive derives nStepsNeeded and names the topmost level,
   which names the levels below it down to level 0 *)
Instantiate ==
    /\ pc = "instantiate"
    /\ nSpacing > 0
    /\ nStepsNeeded' = StepsNeeded(nBitsAvailable, nSpacing)
    /\ pc' = "ones"
    /\ UNCHANGED << nBitsAvailable, nSpacing, masks, rx, x, iStep >>
    /\ UNCHANGED << wvars, svars, nvars >>

(* Ones< T, nBitsAllowed > of level 0 is Step< T, nBitsAllowed > *)
OnesStep ==
    /\ pc = "ones"
    /\ StepInstantiate(BaseBitsAllowed(nBitsAvailable, nSpacing))

(* The mask of level i is named: RectangularWave< T, iStep2Pow,
   iStep2Pow * nSpacing > with the default N.  Template arguments that do
   not fit NBits are ill-formed. *)
NameMask(i) ==
    LET p == Step2Pow(nStepsNeeded', i)
        M == MaskSpacing(p, nSpacing)
    IN  IF p <= NBitsMax /\ M <= NBitsMax
        THEN /\ wL' = p /\ wM' = M /\ wN' = DefaultN(nBitsAvailable, p, M)
             /\ wNDefault' = TRUE
             /\ wn' = 0 /\ wvalue' = {} /\ wpc' = "instantiate"
             /\ sN' = 0 /\ svalue' = Step0 /\ sshift' = 0
             /\ pc' = "mask"
        ELSE /\ pc' = "rejected"
             /\ UNCHANGED << wL, wM, wN, wNDefault, wn, wvalue, wpc,
                             sN, svalue, sshift >>

(* every constant of the instantiation is known: it can be called *)
Instantiated ==
    /\ pc' = "call"
    /\ wpc' = "idle"
    /\ UNCHANGED << wL, wM, wN, wNDefault, wn, wvalue, sN, svalue, sshift >>

(* level 0 has its constant *)
OnesDone ==
    /\ pc = "ones"
    /\ sN = BaseBitsAllowed(nBitsAvailable, nSpacing)
    /\ masks' = << svalue >>
    /\ UNCHANGED << nBitsAvailable, nSpacing, nStepsNeeded, rx, x, iStep, wT, sT,
                    nvars >>
    /\ IF 1 < nStepsNeeded THEN NameMask(1) ELSE Instantiated

(* level Len(masks) has its constant *)
MaskDone ==
    /\ pc = "mask"
    /\ wpc = "done"
    /\ masks' = Append(masks, wvalue)
    /\ UNCHANGED << nBitsAvailable, nSpacing, nStepsNeeded, rx, x, iStep, wT, sT,
                    nvars >>
    /\ IF Len(masks) + 1 < nStepsNeeded THEN NameMask(Len(masks) + 1)
                                        ELSE Instantiated

(* diluteBitsRecursive( rx ) is called; the call runs down to level 0 *)
Call(inputs) ==
    /\ pc = "call"
    /\ \E v \in inputs : rx' = v /\ x' = v
    /\ pc' = "base"
    /\ UNCHANGED << nBitsAvailable, nSpacing, nStepsNeeded, masks, iStep >>
    /\ UNCHANGED << wvars, svars, nvars >>

(* level 0 *)
Base ==
    /\ pc = "base"
    /\ x' = CrumbleBase(rx, masks[1])
    /\ iStep' = 0
    /\ pc' = IF nStepsNeeded - 1 > 0 THEN "crumble" ELSE "return"
    /\ UNCHANGED << nBitsAvailable, nSpacing, nStepsNeeded, masks, rx >>
    /\ UNCHANGED << wvars, svars, nvars >>

(* level iStep+1, after the level below it returned; a shift by the width
   of the promoted operand or more is undefined *)
Crumble ==
    /\ pc = "crumble"
    /\ LET i == iStep + 1
           p == Step2Pow(nStepsNeeded, i)
       IN  IF ShiftDistance(p, nSpacing) < PromotedBits(nBitsAvailable)
           THEN /\ x' = CrumbleRound(nBitsAvailable, nSpacing, p, x, masks[i + 1])
                /\ iStep' = i
                /\ pc' = IF i = nStepsNeeded - 1 THEN "return" ELSE "crumble"
           ELSE /\ x' \in SUBSET Bits(nBitsAvailable)
                /\ iStep' = i
                /\ pc' = "undefined"
    /\ UNCHANGED << nBitsAvailable, nSpacing, nStepsNeeded, masks, rx >>
    /\ UNCHANGED << wvars, svars, nvars >>

Return ==
    /\ pc = "return"
    /\ pc' = "done"
    /\ UNCHANGED << nBitsAvailable, nSpacing, nStepsNeeded, masks, rx, x, iStep >>
    /\ UNCHANGED << wvars, svars, nvars >>

Next ==
    \/ StaticAssertSpacing
    \/ Instantiate
    \/ OnesStep
    \/ OnesDone
    \/ WaveStep
    \/ WaveOne
    \/ WaveMore
    \/ MaskDone
    \/ Call(Inputs(nBitsAvailable))
    \/ Base
    \/ Crumble
    \/ Return

Spec == Init /\ [][Next]_vars

NextMagic ==
    \/ Instantiate
    \/ OnesStep
    \/ OnesDone
    \/ WaveStep
    \/ WaveOne
    \/ WaveMore
    \/ MaskDone
    \/ Call(MagicInputs(nSpacing))
    \/ Base
    \/ Crumble
    \/ Return

SpecMagic == InitMagic /\ [][NextMagic]_vars

(* The templates named with a type wider than Longest.  No mask of a
   dilution of 128 bits has a value, and no level above level 0 is called. *)
InitWide ==
    \/ InitWaveOf(WideWidths)
    \/ \E w \in WideWidths : InitDilute({w}, Spacings(w))

NextWide ==
    \/ WaveDefault
    \/ WaveStep
    \/ WaveNone
    \/ WaveOne
    \/ WaveMore
    \/ StaticAssertSpacing
    \/ Instantiate
    \/ OnesStep
    \/ OnesDone
    \/ Call(Inputs(nBitsAvailable))
    \/ Base
    \/ Return

SpecWide == InitWide /\ [][NextWide]_vars

----------------------------------------------------------------------------
(* Properties of the dilution *)

(* ceil( w / (S+1) ), stated without the code's arithmetic *)
AllowedInputBits(w, S) ==
    CHOOSE a \in 1 .. w : a * (S + 1) >= w /\ (a - 1) * (S + 1) < w

(* bit i of v moved to position i*(S+1) *)
ReferenceDilution(v, S) == { i * (S + 1) : i \in v }

(* the bits 0, S+1, 2(S+1), ... of v, collected into consecutive positions *)
Collect(v, S, w) == { i \in Bits(w) : i * (S + 1) \in v }

ExcessInput ==
    /\ pc \in { "base", "crumble", "return", "done", "undefined" }
    /\ ~ (rx \subseteq Bits(AllowedInputBits(nBitsAvailable, nSpacing)))

(* C1: for every width, every spacing S >= 1 and every input, the dilution
   returns, and what it returns has bit i*(S+1) equal to bit i of the input
   for i below A = ceil(W/(S+1)) and every other bit 0. *)
C1_DilutionIsReference ==
    /\ (nSpacing >= 1 => pc \notin { "rejected", "undefined" } /\ wpc # "rejected")
    /\ (pc = "done" =>
          x = ReferenceDilution(
                  rx \cap Bits(AllowedInputBits(nBitsAvailable, nSpacing)), nSpacing))

C1_Witness ==
    /\ pc = "done" /\ nBitsAvailable = 64 /\ nSpacing = 2 /\ iStep = 5
    /\ rx = Bits(64) \ {3}
    /\ x = { 3 * i : i \in Bits(22) \ {3} }

(* C2: an input of at most A significant bits is reconstructed by collecting
   the bits 0, S+1, 2(S+1), ... of its dilution. *)
C2_RoundTrip ==
    (pc = "done" /\ ~ ExcessInput) => Collect(x, nSpacing, nBitsAvailable) = rx

C2_Witness ==
    /\ pc = "done" /\ nBitsAvailable = 16 /\ nSpacing = 3 /\ iStep >= 2
    /\ rx = { 0, 1, 3 }
    /\ Collect(x, nSpacing, nBitsAvailable) = { 0, 1, 3 }

(* C3: an input with set bits at or above position A dilutes to what the
   input masked with step(W, A) dilutes to, and no error outcome arises. *)
C3_Truncation ==
    ExcessInput =>
        /\ pc \notin { "rejected", "undefined" } /\ wpc # "rejected"
        /\ (pc = "done" =>
              x = diluteBitsRecursive(nBitsAvailable, nSpacing, masks,
                      rx \cap Bits(AllowedInputBits(nBitsAvailable, nSpacing))))

C3_Witness ==
    /\ pc = "done" /\ ExcessInput /\ nBitsAvailable = 32 /\ nSpacing = 1
    /\ rx = { 16 } /\ x = {}

(* C4: 32 bit, spacing 1: the dilution equals part1by1 on [0, 0xFFFF]. *)
C4_Part1By1 ==
    (pc = "done" /\ nBitsAvailable = 32 /\ nSpacing = 1 /\ rx \subseteq Bits(16))
        => x = part1by1(rx)

C4_Witness ==
    /\ pc = "done" /\ nBitsAvailable = 32 /\ nSpacing = 1
    /\ rx = Bits(16) \ {9}
    /\ x = part1by1(rx) /\ Cardinality(x) = 15 /\ 30 \in x

(* C5: 32 bit, spacing 2: the dilution equals part1by2 on [0, 0x3FF]. *)
C5_Part1By2 ==
    (pc = "done" /\ nBitsAvailable = 32 /\ nSpacing = 2 /\ rx \subseteq Bits(10))
        => x = part1by2(rx)

C5_Witness ==
    /\ pc = "done" /\ nBitsAvailable = 32 /\ nSpacing = 2
    /\ rx = Bits(10)
    /\ x = part1by2(rx) /\ Cardinality(x) = 10 /\ 27 \in x

(* C6: 32 bit, spacing 2: the dilution equals part1by2 on every 32-bit
   input, also on one with bits above the allowed input range. *)
C6_Part1By2Unmasked ==
    (pc = "done" /\ nBitsAvailable = 32 /\ nSpacing = 2) => x = part1by2(rx)

(* C7: width 8, spacing 4: two input bits are allowed and 0b00000111
   dilutes to 0b00100001. *)
C7_Example ==
    (pc = "done" /\ nBitsAvailable = 8 /\ nSpacing = 4 /\ rx = BitsOf(\b00000111))
        => /\ x = BitsOf(\b00100001)
           /\ BitsAllowed(nBitsAvailable, nSpacing) = 2
           /\ nStepsNeeded = 2

C7_Witness ==
    /\ pc = "done" /\ nBitsAvailable = 8 /\ nSpacing = 4 /\ rx = { 0, 1, 2 }
    /\ x = { 0, 5 }

(* C16: dilution with spacing S = 0 is the identity: the instantiation is
   accepted and a call returns its argument unchanged, for every width. *)
C16_ZeroSpacingIdentity ==
    nSpacing = 0 => /\ pc # "rejected"
                    /\ (pc = "done" => x = rx)

(* C17: a type wider than the 64 bits of Longest is rejected at compile
   time by the pattern generator and by the dilution: no instantiation with
   such a type has a value or can be called. *)
C17_WideTypeRejected ==
    /\ (wT > LongestBits => wpc # "done")
    /\ (nBitsAvailable > LongestBits => pc \notin { "call", "base", "return", "done" })

----------------------------------------------------------------------------
(* Properties of the patterns *)

(* C8: Step<T,0> is 0, Step<T,n> has the n lowest bits set for 0 < n < W and
   all W bits for n >= W (up to 255), and no shift by W or more is
   evaluated. *)
C8_StepSaturation ==
    /\ (sN = 0 => svalue = {})
    /\ (0 < sN /\ sN < sT => svalue = Bits(sN))
    /\ (sN >= sT => svalue = Bits(sT))
    /\ sshift < sT

C8_Witness == sT = 16 /\ sN = NBitsMax /\ svalue = Bits(16) /\ sshift = 1

(* the pattern of N windows of L set and M clear bits within w bits *)
WindowPattern(w, L, M, N) ==
    IF L + M = 0 THEN {}
    ELSE { b \in Bits(w) : b < N * (L + M) /\ b % (L + M) < L }

(* C9: the value of RectangularWave<T,L,M,N> is N windows of L set bits
   followed by M clear bits, the last cut where it exceeds W bits, and
   every bit at or above N*(L+M) is 0. *)
C9_WavePeriodicity ==
    wpc = "done" => wvalue = WindowPattern(wT, wL, wM, wN)

(* C10: the value of RectangularWave<T,L,M,N> has no bit set at position W
   or above: periods shifted beyond the width are not left in the result. *)
C10_WaveWithinWidth ==
    wpc = "done" => wvalue \subseteq Bits(wT)

(* the integer ceiling of a / b for a, b >= 1, stated without the code's
   arithmetic *)
Ceiling(a, b) == CHOOSE q \in 1 .. a : q * b >= a /\ (q - 1) * b < a

(* C11: when N is left to its default, N = ceil(W/(L+M)) if L+M > 0, and
   N = 0 with value 0 if L = M = 0; the derivation of the default is never
   rejected for dividing by zero. *)
C11_DefaultN ==
    (wNDefault /\ wpc # "default") =>
        /\ ~ (wpc = "rejected" /\ wn = 0)
        /\ (wL + wM > 0 => wN = Ceiling(wT, wL + wM))
        /\ (wL + wM = 0 => wN = 0 /\ (wpc = "done" => wvalue = {}))

C11_Witness ==
    /\ wNDefault /\ wpc = "done"
    /\ wT = 32 /\ wL = 5 /\ wM = 5 /\ wN = 4 /\ wn = 4

(* C19: for M = 0 the wave is a step function: for every width W and all
   L, N, RectangularWave<T,L,0,N> has a value, the min(L*N, W) lowest bits
   set and every bit to the left of them 0. *)
C19_WaveWithoutSpacingIsStep ==
    wM = 0 => /\ wpc # "rejected"
              /\ (wpc = "done" => wvalue = Bits(Min(wL * wN, wT)))

----------------------------------------------------------------------------
(* Properties of the logarithms *)

(* B^e, or SmallLimit where B^e is not small *)
RECURSIVE SmallPow(_, _)
SmallPow(B, e) ==
    IF e = 0 THEN 1
    ELSE LET q == SmallPow(B, e - 1)
         IN  IF q * B >= SmallLimit THEN SmallLimit ELSE q * B

(* the largest e with B^e small, for B >= 2 *)
SmallExp(B) ==
    CHOOSE e \in 1 .. 14 : SmallPow(B, e) < SmallLimit /\ SmallPow(B, e + 1) = SmallLimit

(* B^k for B >= 2, by factors B^e that are small *)
RECURSIVE WidePow(_, _)
WidePow(B, k) ==
    IF k = 0 THEN Wide(Ull(1))
    ELSE LET e == IF k < SmallExp(B) THEN k ELSE SmallExp(B)
         IN  WideMul(WidePow(B, k - e), SmallPow(B, e))

(* k = floor( log_B( X ) ): B^k <= X < B^(k+1) *)
IsFloorLog(B, X, k) ==
    /\ WideLeq(WidePow(B, k), Wide(X))
    /\ ~ WideLeq(WidePow(B, k + 1), Wide(X))

(* k = ceil( log_B( X ) ): B^(k-1) < X <= B^k *)
IsCeilLog(B, X, k) ==
    /\ WideLeq(Wide(X), WidePow(B, k))
    /\ (k > 0 => ~ WideLeq(Wide(X), WidePow(B, k - 1)))

(* C12: FloorLog<B,X> is floor(log_B(X)) for every base B >= 2 and every
   X >= 1, and 0 for X = 0. *)
C12_FloorLogExact ==
    (lkind = "FloorLog" /\ lB >= 2) =>
        /\ lpc # "rejected"
        /\ (lpc = "done" =>
              IF lX = Ull(0) THEN lvalue = 0 ELSE IsFloorLog(lB, lX, lvalue))

(* C13: CeilLog<B,X> is ceil(log_B(X)) for every base B >= 2 and every X >= 1
   representable in 64 bits, and 0 for X = 0. *)
C13_CeilLogExact ==
    (lkind = "CeilLog" /\ lB >= 2) =>
        /\ lpc # "rejected"
        /\ (lpc = "done" =>
              IF lX = Ull(0) THEN lvalue = 0 ELSE IsCeilLog(lB, lX, lvalue))

----------------------------------------------------------------------------
(* Properties of ceilDiv and isPowerOfTwo *)

(* the integer ceiling of a / b for b > 0, without a sum that can wrap *)
CeilingOfQuotient(a, b) ==
    IF a = Ull(0) THEN Ull(0)
    ELSE UllAdd(DivBy(UllAdd(a, UllMax), b), Ull(1))

(* C14: ceilDiv(a, b) is the integer ceiling of a/b for every a >= 0 and
   every b != 0 of the operand type, also for a = 0 and for a close to the
   largest value of the type. *)
C14_CeilDivIsCeiling ==
    (fname = "ceilDiv" /\ fpc = "done") => fresult = CeilingOfQuotient(fa, fb)

(* C15: isPowerOfTwo(x) is true exactly when x = 2^k for some k >= 0: when
   exactly one bit of x is set; it is false for 0 and every other value. *)
C15_IsPowerOfTwo ==
    (fname = "isPowerOfTwo" /\ fpc = "done") => fresult = (Cardinality(fa) = 1)

C15_Witness ==
    /\ fname = "isPowerOfTwo" /\ fpc = "done" /\ fT = 64
    /\ fa = { 63 } /\ fresult = TRUE

(* C18: a logarithm with base B = 0 fails the build for every argument X,
   also for X = 0 and X = 1: no instantiation with B = 0 has a value. *)
C18_BaseZeroRejected ==
    lB = 0 => lpc \notin { "value", "done" }

----------------------------------------------------------------------------
(* Properties of the index conversion *)

RECURSIVE ProductOf(_, _)
ProductOf(n, k) == IF k = 0 THEN 1 ELSE ProductOf(n, k - 1) * n[k]

(* the number of elements is a value of T_UintLinear *)
Representable == iT >= IntBits \/ ProductOf(rnSize, Len(rnSize)) < Pow2(iT)

(* C20 as stated: for every rnSize with all sizes >= 1 and every rIndex below
   it, the conversion to a linear index and back returns rIndex, and the
   closing assertion rLinIndex == 0 (like the others) holds. *)
C20_RoundTripEverySize ==
    /\ ipc # "aborted"
    /\ (ipc = "done" => vecIndex = rIndex /\ rLinIndex = 0)

(* C20, amended: the same for every rnSize whose number of elements, the
   product of the sizes, is representable in T_UintLinear. *)
C20_RoundTrip ==
    Representable =>
        /\ ipc # "aborted"
        /\ (ipc = "done" => vecIndex = rIndex /\ rLinIndex = 0)

C20_Witness ==
    /\ ipc = "done" /\ iT = 8
    /\ rnSize = << 2, 3, 15 >> /\ rIndex = << 1, 2, 14 >>
    /\ linIndex = 89 /\ vecIndex = rIndex /\ rLinIndex = 0

(* the product of the sizes n[j] with j > k *)
RECURSIVE TailProduct(_, _)
TailProduct(n, k) == IF k >= Len(n) THEN 1 ELSE n[k + 1] * TailProduct(n, k + 1)

(* the row-major index: the sum over i >= k of v[i] times the sizes after i *)
RECURSIVE RowMajor(_, _, _)
RowMajor(v, n, k) ==
    IF k > Len(v) THEN 0 ELSE v[k] * TailProduct(n, k) + RowMajor(v, n, k + 1)

(* convertVectorToLinearIndex has returned *)
LinearReturned == ipc \in { "toVector", "vecLoop", "done", "aborted" }

(* the same index vector in an array with another size of the first dimension *)
OtherFirstSize(n, m) == IF Len(n) = 0 THEN n ELSE [ n EXCEPT ![1] = m ]

(* C21 as stated: for every rnSize and every rIndex below it the returned
   linear index is the row-major sum of rIndex[i] times the sizes after i,
   whatever the size of the first dimension. *)
C21_RowMajorEverySize ==
    LinearReturned =>
        \A m \in Sizes : linIndex = RowMajor(rIndex, OtherFirstSize(rnSize, m), 1)

(* C21, amended: the same whenever that sum is representable in
   T_UintLinear. *)
C21_RowMajor ==
    LinearReturned /\ (iT >= IntBits \/ RowMajor(rIndex, rnSize, 1) < Pow2(iT)) =>
        \A m \in Sizes : linIndex = RowMajor(rIndex, OtherFirstSize(rnSize, m), 1)

C21_Witness ==
    /\ ipc = "toVector" /\ iT = 8
    /\ rnSize = << 15, 3, 15 >> /\ rIndex = << 1, 2, 14 >>
    /\ linIndex = 89 /\ rLinIndex = 89

----------------------------------------------------------------------------
(* Properties of the rounds of the dilution *)

(* ceil( log2( a ) ), stated without the code's arithmetic *)
CeilLog2(a) == CHOOSE k \in 0 .. 8 : Pow2(k) >= a /\ (k = 0 \/ Pow2(k - 1) < a)

(* the block size of the round that follows level iStep *)
NextBlockSize == Pow2((nStepsNeeded - 1) - (iStep + 1))

(* ( v | ( v << shift ) ) & RectangularWave( w, p, M ) in w bits *)
ShiftAndMask(v, w, p, shift, M) ==
    ({ b + shift : b \in v } \cup v) \cap WindowPattern(w, p, M, w)

(* C22 as stated: each round above the base, with block size
   p = 2^(stepsNeeded-1-stepIndex), computes
   x = (x | (x << p*(S+1))) & RectangularWave(width, p, p*S). *)
C22_RoundShiftsByPeriod ==
    [][ pc = "crumble" =>
          x' = ShiftAndMask(x, nBitsAvailable, NextBlockSize,
                            NextBlockSize * (nSpacing + 1), NextBlockSize * nSpacing)
      ]_vars

(* C22, amended: each round above the base computes
   x = (x | (x << p*S)) & RectangularWave(width, p, p*S): the shift distance
   is p*S. *)
C22_RoundShiftsBySpacing ==
    [][ pc = "crumble" =>
          x' = ShiftAndMask(x, nBitsAvailable, NextBlockSize,
                            NextBlockSize * nSpacing, NextBlockSize * nSpacing)
      ]_vars

(* 16 bits, spacing 1, after the round with block size 4: bit 5 moved by 4 *)
C22_Witness ==
    /\ pc = "crumble" /\ iStep = 1 /\ nBitsAvailable = 16 /\ nSpacing = 1
    /\ nStepsNeeded = 4
    /\ rx = { 0, 5 } /\ x = { 0, 9 }

(* C23: for every width and spacing S >= 1 one call executes exactly
   1 + k rounds, k = ceil(log2(AllowedInputBits)): first the base round that
   masks the input, then the shift-and-mask rounds with the block sizes
   2^(k-1), ..., 2, 1 in this order, each once, and it returns after the one
   with block size 1. *)
C23_RoundsInOrder ==
    [][ LET A == AllowedInputBits(nBitsAvailable, nSpacing)
            k == CeilLog2(A)
            p == Pow2(k - (iStep + 1))
        IN  /\ pc = "call" => pc' = "base"
            /\ pc = "base" =>
                 /\ iStep' = 0
                 /\ x' = rx \cap Bits(A)
                 /\ pc' = IF k = 0 THEN "return" ELSE "crumble"
            /\ pc = "crumble" =>
                 /\ iStep < k
                 /\ iStep' = iStep + 1
                 /\ x' = ShiftAndMask(x, nBitsAvailable, p, p * nSpacing, p * nSpacing)
                 /\ pc' = IF p = 1 THEN "return" ELSE "crumble"
            /\ pc = "return" => iStep = k /\ x' = x /\ pc' = "done"
      ]_vars

(* 64 bits, spacing 1: 32 input bits, the base round and 5 rounds *)
C23_Witness ==
    /\ pc = "done" /\ nBitsAvailable = 64 /\ nSpacing = 1
    /\ nStepsNeeded = 6 /\ iStep = 5
    /\ rx = Bits(8) /\ x = { 2 * i : i \in Bits(8) }

(* the instantiation for 32 bits and spacing S has the base mask and the
   round masks given, and a call masks its argument with the base mask and
   then runs the rounds x = (x | (x << shifts[i])) & roundMasks[i] for
   i = 1, 2, ... in this order, and returns after the last *)
RunsSchedule(S, baseMask, shifts, roundMasks) ==
    (nBitsAvailable = 32 /\ nSpacing = S) =>
        /\ pc = "call" => masks = << baseMask >> \o roundMasks
        /\ pc = "base" =>
             /\ iStep' = 0
             /\ x' = rx \cap baseMask
             /\ pc' = "crumble"
        /\ pc = "crumble" =>
             /\ iStep < Len(shifts)
             /\ iStep' = iStep + 1
             /\ x' = ({ b + shifts[iStep'] : b \in x } \cup x) \cap roundMasks[iStep']
             /\ pc' = IF iStep' = Len(shifts) THEN "return" ELSE "crumble"

(* the schedules as the claims give them *)
Spacing1BaseMask == Word(\h0000, \hFFFF)
Spacing1Shifts == << 8, 4, 2, 1 >>
Spacing1Masks ==
    << Word(\h00FF, \h00FF), Word(\h0F0F, \h0F0F),
       Word(\h3333, \h3333), Word(\h5555, \h5555) >>

Spacing2BaseMask == Word(\h0000, \h03FF)
Spacing2Shifts == << 16, 8, 4, 2 >>
Spacing2Masks ==
    << Word(\hFF00, \h00FF), Word(\h0300, \hF00F),
       Word(\h030C, \h30C3), Word(\h0924, \h9249) >>

(* C24: for 32 bits and spacing 1 the derived schedule is: mask the input
   with 0x0000ffff, then the rounds (shift 8, mask 0x00FF00FF),
   (shift 4, mask 0x0F0F0F0F), (shift 2, mask 0x33333333),
   (shift 1, mask 0x55555555), in that order. *)
C24_ScheduleSpacing1 ==
    [][ RunsSchedule(1, Spacing1BaseMask, Spacing1Shifts, Spacing1Masks) ]_vars

(* 0x0000ff00 after the round with shift 8 and mask 0x00FF00FF *)
C24_Witness ==
    /\ pc = "crumble" /\ nBitsAvailable = 32 /\ nSpacing = 1 /\ iStep = 1
    /\ masks[3] = Word(\h0F0F, \h0F0F)
    /\ rx = Word(\h0000, \hFF00) /\ x = Word(\h00FF, \h0000)

(* C25: for 32 bits and spacing 2 the derived schedule is: mask the input
   with 0x000003ff, then the rounds (shift 16, mask 0xFF0000FF),
   (shift 8, mask 0x0300F00F), (shift 4, mask 0x030C30C3),
   (shift 2, mask 0x09249249), in that order. *)
C25_ScheduleSpacing2 ==
    [][ RunsSchedule(2, Spacing2BaseMask, Spacing2Shifts, Spacing2Masks) ]_vars

(* C26: after the base round the value is the input masked to its
   A = AllowedInputBits low bits, and after each later round, with block
   size p, bit i of that masked input sits at position
   floor(i/p)*p*(S+1) + (i mod p) and every other bit is 0. *)
C26_IntermediateState ==
    (pc \in { "crumble", "return", "done" } /\ nSpacing >= 1) =>
        LET A == AllowedInputBits(nBitsAvailable, nSpacing)
            p == Pow2(CeilLog2(A) - iStep)
        IN  /\ iStep = 0 => x = rx \cap Bits(A)
            /\ iStep >= 1 =>
                 x = { (i \div p) * p * (nSpacing + 1) + (i % p) : i \in rx \cap Bits(A) }

(* 32 bits, spacing 2, after the round with block size 4 *)
C26_Witness ==
    /\ pc = "crumble" /\ nBitsAvailable = 32 /\ nSpacing = 2 /\ iStep = 2
    /\ rx = { 1, 5, 7 } /\ x = { 1, 13, 15 }

(* C27: the two places that derive the number of allowed input bits agree:
   for the width and every spacing S in 0..255 the width
   1 + floor((W-1)/(S+1)) of the base round's mask equals ceilDiv(W, S+1),
   from which the number of rounds is derived; so the base mask of an
   instantiation has the width its number of rounds was derived from. *)
C27_AllowedBitsAgree ==
    /\ pc = "call" =>
           \A S \in 0 .. NBitsMax :
               BaseBitsAllowed(nBitsAvailable, S) = BitsAllowed(nBitsAvailable, S)
    /\ Len(masks) >= 1 => masks[1] = Bits(BitsAllowed(nBitsAvailable, nSpacing))
    /\ nStepsNeeded > 0 =>
           nStepsNeeded = 1 + CeilLog2(BaseBitsAllowed(nBitsAvailable, nSpacing))

(* 32 bits, spacing 2: 11 bits in both places *)
C27_Witness ==
    /\ pc = "call" /\ nBitsAvailable = 32 /\ nSpacing = 2
    /\ nStepsNeeded = 5 /\ masks[1] = Bits(11)
    /\ BaseBitsAllowed(32, 2) = 11 /\ BitsAllowed(32, 2) = 11

(* C28: in every round, for the widths 8, 16, 32, 64 and every spacing S in
   1..255, the block size p satisfies p*(S+1) <= W-1: the shift distance p*S
   and the mask period p*(S+1) are below W, no shift by the operand width or
   more is evaluated, neither by the round nor by the mask's template, and
   the mask of the round has at least two periods. *)
C28_ShiftsBelowWidth ==
    /\ pc = "instantiate" =>
         \A S \in 1 .. NBitsMax :
             \A i \in 1 .. (StepsNeeded(nBitsAvailable, S) - 1) :
                 Step2Pow(StepsNeeded(nBitsAvailable, S), i) * (S + 1)
                     <= nBitsAvailable - 1
    /\ nSpacing >= 1 => pc \notin { "rejected", "undefined" } /\ wpc # "rejected"
    /\ pc = "mask" =>
         /\ wL + wM <= nBitsAvailable - 1
         /\ wN >= 2
    /\ pc = "crumble" =>
         LET p == Step2Pow(nStepsNeeded, iStep + 1)
         IN  /\ p * (nSpacing + 1) <= nBitsAvailable - 1
             /\ ShiftDistance(p, nSpacing) < nBitsAvailable
             /\ p * (nSpacing + 1) \in masks[iStep + 2]

(* 8 bits, spacing 2, before the round with block size 2: period 6, and the
   second window of the mask is cut at bit 7 *)
C28_Witness ==
    /\ pc = "crumble" /\ nBitsAvailable = 8 /\ nSpacing = 2 /\ iStep = 0
    /\ nStepsNeeded = 3
    /\ masks[2] = { 0, 1, 6, 7 }

----------------------------------------------------------------------------
(* Termination of the logarithms *)

(* C29: for every base B that passes the static assertion B != 0 and every
   X the recursion of FloorLog<B,X> and of CeilLog<B,X> reaches a
   specialisation X = 0 or X = 1 after finitely many steps: no chain of
   instantiations is cut off, and none is longer than the bits of X. *)
C29_LogRecursionEnds ==
    lB # 0 => /\ lpc # "rejected"
              /\ ln <= LongestBits

----------------------------------------------------------------------------
(* Interleaving: the dilutions of S+1 inputs, the k-th shifted by k, or'ed *)

(* the dilution of the input with the n lowest bits set *)
FullDilution(n) ==
    diluteBitsRecursive(nBitsAvailable, nSpacing, masks, Bits(n))

(* the value interleaved from the dilution of the call as the k-th one and
   the dilution others as the other ones *)
Interleaved(k, others) ==
    UNION { Shl(IF j = k THEN x ELSE others, j, nBitsAvailable) :
                j \in 0 .. nSpacing }

(* the bits k, k+(S+1), k+2(S+1), ... of v, collected *)
Extract(v, k) == { i \in Bits(nBitsAvailable) : i * (nSpacing + 1) + k \in v }

(* whatever place k the input of the call takes among inputs of up to n
   bits, its bits collide with no bit of another input and it is recovered *)
Lossless(n) ==
    LET others == FullDilution(n)
    IN  \A k \in 0 .. nSpacing :
            /\ \A j \in (0 .. nSpacing) \ { k } :
                   Shl(x, k, nBitsAvailable) \cap Shl(others, j, nBitsAvailable) = {}
            /\ Extract(Interleaved(k, others), k) = rx

(* C30 as stated: for every width and spacing S >= 1, S+1 inputs of at most
   AllowedInputBits = ceil(W/(S+1)) significant bits each are interleaved
   without colliding bits and each is recovered from its bits k, k+(S+1),
   ... of the interleaved value. *)
C30_InterleaveCeil ==
    LET A == AllowedInputBits(nBitsAvailable, nSpacing)
    IN  (pc = "done" /\ nSpacing >= 1 /\ rx \subseteq Bits(A)) => Lossless(A)

(* C30, amended: the same for spacings 1 <= S < W and inputs of at most
   floor(W/(S+1)) significant bits each. *)
C30_InterleaveFloor ==
    LET F == nBitsAvailable \div (nSpacing + 1)
    IN  (pc = "done" /\ nSpacing >= 1 /\ nSpacing < nBitsAvailable
           /\ rx \subseteq Bits(F)) => Lossless(F)

(* 8 bits, spacing 2: two bits per input; 0b11 as third input lands on the
   bits 2 and 5 *)
C30_Witness ==
    /\ pc = "done" /\ nBitsAvailable = 8 /\ nSpacing = 2
    /\ rx = { 0, 1 } /\ x = { 0, 3 }
    /\ Interleaved(2, FullDilution(2)) = Bits(6)
    /\ Extract(Interleaved(2, FullDilution(2)), 2) = { 0, 1 }

====
